---- MODULE Spec2Model ----
(***************************************************************************)
(* Model of the hardware test harness (src/hardware_test.py): the ledger   *)
(* TestResult, the sequencer main() and the remote-check group             *)
(* perform_ssh_tests() with reconnect_ssh().                               *)
(*                                                                         *)
(* The program is one sequential thread.  pc is its position; every        *)
(* action is the code between two blocking calls (an operator prompt, the  *)
(* provisioner, one connection attempt, one remote command, one write of   *)
(* the spreadsheet), and the result of the blocking call is the action's   *)
(* input.                                                                  *)
(***************************************************************************)
EXTENDS Integers, Sequences, FiniteSets, TLC

(* ------------------------------------------------------------------ *)
(* Bounds of the model                                                  *)
(* ------------------------------------------------------------------ *)

\* tests the operator ticks in the selection menu after clearing it with 'n'
MaxToggles == 1
\* exceptions raised in one run of the program
MaxRaises == 1
\* seconds the operator takes to answer a yes/no prompt
OperatorSecs == 1
\* seconds the provisioner takes
ProvisionSecs == 2
\* seconds one remote command takes
CommandSecs == 1

(* ------------------------------------------------------------------ *)
(* Catalog and ledger (TestResult)                                      *)
(* ------------------------------------------------------------------ *)

\* TEST_IDS, in the order of the dict
TestOrder == <<"T01", "T02", "T03", "T04", "T05", "T06", "T07",
               "T09", "T10", "T11", "T12", "T13", "T14">>
TEST_IDS == {TestOrder[i] : i \in 1..Len(TestOrder)}
TestNo(t) == CHOOSE i \in 1..Len(TestOrder) : TestOrder[i] = t

\* test_durations[id] = None
NoDuration == -1

\* reconnect_ssh(test_result, max_attempts=5)
DefaultMaxAttempts == 5
\* reconnect_ssh(test_result, max_attempts=3) for the shutdown command
ShutdownMaxAttempts == 3
\* ssh_execute_interactive: 0.5 + 1 + 10 * 0.5 s, then sleep(2), as int
InteractiveSecs == 8

\* a ledger with entries for the selected tests only
TestResultInitSelectedOnly(tests) ==
    [ test_results   |-> [t \in tests |-> "None"],
      test_durations |-> [t \in tests |-> NoDuration],
      tests_to_run   |-> tests,
      overall_pass   |-> FALSE,
      notes          |-> << >>,
      log            |-> << >> ]

\* TestResult.__init__: None for a selected test, 'SKIPPED' and 0 otherwise
TestResultInit(tests) ==
    [ test_results   |-> [t \in TEST_IDS |-> IF t \in tests THEN "None" ELSE "SKIPPED"],
      test_durations |-> [t \in TEST_IDS |-> IF t \in tests THEN NoDuration ELSE 0],
      tests_to_run   |-> tests,
      overall_pass   |-> FALSE,
      notes          |-> << >>,
      log            |-> << >> ]

\* status = 'PASS' if result else 'FAIL' if result is not None else 'SKIPPED'
LogStatus(result) ==
    IF result = "True" \/ result = "SKIPPED" THEN "PASS"
    ELSE IF result = "False" THEN "FAIL" ELSE "SKIPPED"

\* TestResult.set_test_result(test_id, result, details, duration): the
\* result is stored whatever was stored before, and a line is logged
set_test_result(tr, test_id, result, details, duration) ==
    [tr EXCEPT !.test_results =
                    [t \in DOMAIN @ \cup {test_id} |->
                        IF t = test_id THEN result ELSE @[t]],
               !.test_durations =
                    IF duration # NoDuration
                    THEN [t \in DOMAIN @ \cup {test_id} |->
                            IF t = test_id THEN duration ELSE @[t]]
                    ELSE @,
               !.log = Append(@, <<test_id, LogStatus(result), details>>)]

\* save_to_excel without the "is not None" filter
OverallPassNoFilter(results) ==
    \A t \in TEST_IDS : results[t] = "True" \/ results[t] = "SKIPPED"

\* truth value of a stored result: 'SKIPPED' is a non-empty string
Truthy(v) == v = "True" \/ v = "SKIPPED"

\* save_to_excel: all(values that are not None) if there is one, else False
OverallPass(results) ==
    LET vals == {t \in TEST_IDS : results[t] # "None"}
    IN  IF vals # {} THEN \A t \in vals : Truthy(results[t]) ELSE FALSE

(* ------------------------------------------------------------------ *)
(* select_tests_to_run: the menu                                        *)
(* ------------------------------------------------------------------ *)

\* Space on the row of test t, 'a', 'n'; the cursor keys change no selection
MenuKeys == {[k |-> "space", row |-> t] : t \in TEST_IDS}
              \cup {[k |-> "a", row |-> "T01"], [k |-> "n", row |-> "T01"]}

MenuKey(selected, key) ==
    IF key.k = "space"
    THEN IF key.row \in selected THEN selected \ {key.row}
                                 ELSE selected \cup {key.row}
    ELSE IF key.k = "a" THEN TEST_IDS
    ELSE {}

RECURSIVE MenuRun(_, _)
MenuRun(selected, keys) ==
    IF keys = << >> THEN selected
    ELSE MenuRun(MenuKey(selected, Head(keys)), Tail(keys))

\* the key sequences of the model: 'n', then Space on up to n rows
RECURSIVE KeySeqs(_)
KeySeqs(n) ==
    IF n = 0 THEN { <<[k |-> "n", row |-> "T01"]>> }
    ELSE LET shorter == KeySeqs(n - 1)
         IN  shorter \cup {Append(s, [k |-> "space", row |-> t]) :
                              s \in shorter, t \in TEST_IDS}

\* the fallback returns all tests whatever the operator types
select_tests_to_run_AllOnFail(keys, end, skip) ==
    IF end = "enter" THEN MenuRun(TEST_IDS, keys) ELSE TEST_IDS

\* select_tests_to_run(): Enter returns the selection, ESC returns all
\* tests; when curses fails the operator types the ids to skip (lines 291-302)
MenuEnd == {"enter", "esc", "fail"}
select_tests_to_run(keys, end, skip) ==
    IF end = "esc" THEN TEST_IDS
    ELSE IF end = "fail" THEN TEST_IDS \ skip
    ELSE MenuRun(TEST_IDS, keys)

\* what the operator selects: everything (Enter or ESC at once, 'a', or
\* Enter in the text fallback), or a few tests ticked one by one
Selections ==
    {select_tests_to_run(ks, e, {}) :
        ks \in KeySeqs(MaxToggles) \cup { << >>, <<[k |-> "a", row |-> "T01"]>> },
        e \in MenuEnd}

(* ------------------------------------------------------------------ *)
(* State                                                                *)
(* ------------------------------------------------------------------ *)

VARIABLES
    pc,           \* position of the program
    created,      \* 'test_result' in locals()
    test_result,  \* the current TestResult
    restart_test, \* main: restart_test
    ui_appears,   \* main: ui_appears
    ssh,          \* the local ssh: "None" or "client"
    openConns,    \* SSH clients connected and not closed
    ctx,          \* which call of reconnect_ssh is running
    attempt,      \* reconnect_ssh: attempt
    retried,      \* the command at pc is the one re-issued after a reconnect
    output,       \* perform_ssh_tests: output (markers it contains)
    error,        \* perform_ssh_tests: error (markers it contains)
    rows,         \* rows of the spreadsheet written from test_result
    prompted,     \* tests the operator was asked about in this attempt
    reply,        \* the operator's last answer to a yes/no prompt, and the test
    provCalls,    \* calls of upload_firmware_wipe in this attempt
    connected,    \* a connection was opened in this attempt
    acks,         \* wait_for_enter calls of the running reconnect_ssh
    cmd,          \* the remote command issued last: site, times issued, failed
    raised,       \* exceptions raised so far
    exitCode,     \* process exit status, -1 while running
    runner        \* the CM5Runner object and the position of its run()

vars == <<pc, created, test_result, restart_test, ui_appears, ssh, openConns,
          ctx, attempt, retried, output, error, rows, prompted, reply, provCalls,
          connected, acks, cmd, raised, exitCode, runner>>

sshVars == <<ssh, openConns, ctx, attempt, retried, output, error, connected,
             acks, cmd>>

\* CM5Runner.__init__: no connection, running; run() not yet entered
RunnerNew == [pc |-> "run", ssh |-> "None", client |-> "None", running |-> TRUE,
              open |-> 0, connects |-> 0, executed |-> 0, polls |-> 0,
              ticks |-> 0, success |-> "None", exit |-> -1]

NoCmd == [site |-> "none", n |-> 0, fail |-> FALSE]
NoReply == [test |-> "none", answer |-> "none"]

hardware_tests == {"T02", "T03", "T04", "T05", "T06", "T07"}
ssh_tests == {"T09", "T10", "T11", "T12", "T13", "T14"}

Init ==
    /\ pc = "select"
    /\ created = FALSE
    /\ test_result = TestResultInit({})
    /\ restart_test = FALSE
    /\ ui_appears = FALSE
    /\ ssh = "None"
    /\ openConns = 0
    /\ ctx = "none"
    /\ attempt = 0
    /\ retried = FALSE
    /\ output = {}
    /\ error = {}
    /\ rows = 0
    /\ prompted = {}
    /\ reply = NoReply
    /\ provCalls = 0
    /\ connected = FALSE
    /\ acks = 0
    /\ cmd = NoCmd
    /\ raised = 0
    /\ exitCode = -1
    /\ runner = RunnerNew

(* ------------------------------------------------------------------ *)
(* main: where control goes after each step                             *)
(* ------------------------------------------------------------------ *)

\* Step 5: the SSH group runs if any of its tests is selected
SshStage(tests) ==
    IF tests \cap ssh_tests # {} THEN "connect" ELSE "save_final"

AfterT06(tests) == IF "T07" \in tests THEN "T07" ELSE SshStage(tests)

\* the UI tests run whatever T05 gave
AfterT05Always(tests, ui) ==
    IF "T06" \in tests THEN "T06" ELSE AfterT06(tests)

\* if ui_appears or 'T05' not in test_result.tests_to_run
AfterT05(tests, ui) ==
    IF ui \/ "T05" \notin tests
    THEN IF "T06" \in tests THEN "T06" ELSE AfterT06(tests)
    ELSE SshStage(tests)

AfterT04(tests) == IF "T05" \in tests THEN "T05" ELSE AfterT05(tests, FALSE)
AfterT03(tests) == IF "T04" \in tests THEN "T04" ELSE AfterT04(tests)
AfterT02(tests) == IF "T03" \in tests THEN "T03" ELSE AfterT03(tests)
AfterT01(tests) == IF "T02" \in tests THEN "T02" ELSE AfterT02(tests)
AtStart(tests)  == IF "T01" \in tests THEN "T01" ELSE AfterT01(tests)

AfterVisual(t, tests, ui) ==
    CASE t = "T02" -> AfterT02(tests)
      [] t = "T03" -> AfterT03(tests)
      [] t = "T04" -> AfterT04(tests)
      [] t = "T05" -> AfterT05(tests, ui)
      [] t = "T06" -> AfterT06(tests)
      [] t = "T07" -> SshStage(tests)

\* entering perform_ssh_tests: the first reconnect_ssh call
EnterStage(next) ==
    IF next = "connect"
    THEN /\ ctx' = "init" /\ attempt' = 0 /\ acks' = 0
         /\ UNCHANGED <<ssh, openConns, retried, output, error, cmd, connected>>
    ELSE UNCHANGED sshVars

(* ------------------------------------------------------------------ *)
(* main: selection, firmware, visual and UI groups                      *)
(* ------------------------------------------------------------------ *)

\* lines 788-818: select tests, read the device id, build the ledger
NewAttempt(tests) ==
    /\ pc = "select"
    /\ created' = TRUE
    /\ test_result' = TestResultInit(tests)
    /\ restart_test' = FALSE
    /\ ui_appears' = FALSE
    /\ rows' = 0
    /\ prompted' = {}
    /\ reply' = NoReply
    /\ provCalls' = 0
    /\ pc' = AtStart(tests)
    /\ connected' = FALSE
    /\ ctx' = IF AtStart(tests) = "connect" THEN "init" ELSE "none"
    /\ attempt' = 0
    /\ acks' = 0
    /\ UNCHANGED <<ssh, openConns, retried, output, error, cmd, raised, exitCode, runner>>

\* upload_firmware_wipe: what it reports when it fails (lines 311-386)
FirmwareFailures ==
    {"No RPI-RP2 volume found", "Flash nuke failed",
     "Device did not disappear after flash nuke",
     "Device did not reappear after flash nuke",
     "MicroPython firmware flash failed", "No UART port found",
     "Failed to upload file", "Exception uploading file"}
FirmwareResults == {"All files uploaded successfully"} \cup FirmwareFailures

\* upload_firmware_wipe(test_result): T01 is recorded on every path
upload_firmware_wipe(tr, res) ==
    set_test_result(tr, "T01",
                    IF res \in FirmwareFailures THEN "False" ELSE "True",
                    res, ProvisionSecs)

\* the provisioner's failure does not stop the attempt
FirmwareNoAbort(res) ==
    /\ pc = "T01"
    /\ provCalls' = provCalls + 1
    /\ test_result' = upload_firmware_wipe(test_result, res)
    /\ pc' = AfterT01(test_result.tests_to_run)
    /\ EnterStage(AfterT01(test_result.tests_to_run))
    /\ UNCHANGED <<created, restart_test, ui_appears, rows, prompted, reply, raised, exitCode, runner>>

\* lines 822-832: the provisioner; when it fails the ledger gets its note,
\* is saved, and the loop goes on (continue)
Firmware(res) ==
    /\ pc = "T01"
    /\ provCalls' = provCalls + 1
    /\ IF res \notin FirmwareFailures
       THEN /\ test_result' = upload_firmware_wipe(test_result, res)
            /\ pc' = AfterT01(test_result.tests_to_run)
            /\ EnterStage(AfterT01(test_result.tests_to_run))
       ELSE /\ test_result' = [upload_firmware_wipe(test_result, res)
                                 EXCEPT !.notes = <<"Firmware upload failed">>]
            /\ pc' = "save_fw"
            /\ UNCHANGED sshVars
    /\ UNCHANGED <<created, restart_test, ui_appears, rows, prompted, reply, raised, exitCode, runner>>

Answers == {"yes", "no", "stop"}

\* get_yes_no_input without the question whether to continue
get_yes_no_input_NoStop(answer, allow_continue_check) ==
    IF answer = "yes" THEN "True" ELSE "False"

\* get_yes_no_input(prompt, allow_continue_check): True, False or None
get_yes_no_input(answer, allow_continue_check) ==
    IF answer = "yes" THEN "True"
    ELSE IF answer = "stop" /\ allow_continue_check THEN "None"
    ELSE "False"

\* on None main goes on with the loop without saving
OnStopNoSave == "select"

\* lines 847-850: on None main sets restart_test, saves the ledger and
\* goes on with the loop (continue)
OnStop == "save_restart"

\* lines 845-916: one visual or UI test
Visual(t, answer) ==
    /\ pc = t
    /\ t \in hardware_tests
    /\ prompted' = prompted \cup {t}
    /\ reply' = [test |-> t, answer |-> answer]
    /\ LET result == get_yes_no_input(answer, TRUE)
           ui == IF t = "T05" THEN result = "True" ELSE ui_appears
           next == AfterVisual(t, test_result.tests_to_run, ui)
       IN  IF result = "None"
           THEN /\ restart_test' = TRUE
                /\ pc' = OnStop
                /\ UNCHANGED <<test_result, ui_appears, sshVars>>
           ELSE /\ test_result' = set_test_result(test_result, t, result, "", OperatorSecs)
                /\ ui_appears' = ui
                /\ pc' = next
                /\ EnterStage(next)
                /\ UNCHANGED restart_test
    /\ UNCHANGED <<created, rows, provCalls, raised, exitCode, runner>>

(* ------------------------------------------------------------------ *)
(* save_to_excel and the handlers of main                               *)
(* ------------------------------------------------------------------ *)

SavePcs == {"save_fw", "save_restart", "save_final", "save_err"}

\* after a firmware failure main goes on to the shutdown prompt
AfterSaveFinalizing(at) ==
    CASE at = "save_fw"      -> "shutdown_prompt"
      [] at = "save_restart" -> "select"
      [] at = "save_final"   -> "shutdown_prompt"
      [] at = "save_err"     -> "err_wait"

\* where main goes when save_to_excel returns
AfterSave(at) ==
    CASE at = "save_fw"      -> "select"            \* line 830: continue
      [] at = "save_restart" -> "select"            \* line 850: continue
      [] at = "save_final"   -> "shutdown_prompt"   \* line 946
      [] at = "save_err"     -> "err_wait"          \* line 977

\* the handler replaces the notes by its own note
HandlerOverwrites ==
    IF created
    THEN /\ test_result' = [test_result EXCEPT !.notes = <<"Error">>]
         /\ pc' = "save_err"
    ELSE /\ pc' = "err_wait"
         /\ UNCHANGED test_result

\* except Exception (lines 972-977): note, then save again
Handler ==
    IF created
    THEN /\ test_result' = [test_result EXCEPT !.notes = Append(@, "Error")]
         /\ pc' = "save_err"
    ELSE /\ pc' = "err_wait"
         /\ UNCHANGED test_result

\* the process has ended: its memory is gone, the spreadsheet and the
\* connections it left open remain
Ended(at, code) ==
    /\ pc' = at
    /\ exitCode' = code
    /\ created' = FALSE
    /\ test_result' = TestResultInit({})
    /\ restart_test' = FALSE
    /\ ui_appears' = FALSE
    /\ ssh' = "None"
    /\ ctx' = "none" /\ attempt' = 0 /\ acks' = 0 /\ retried' = FALSE
    /\ output' = {} /\ error' = {} /\ cmd' = NoCmd
    /\ prompted' = {} /\ reply' = NoReply /\ provCalls' = 0 /\ connected' = FALSE
    /\ raised' = 0
    /\ UNCHANGED <<rows, openConns, runner>>

\* an exception that leaves main: the process ends with a traceback
Crash == Ended("crashed", 1)

\* save_to_excel(test_result): overall_pass is computed, then the row is
\* written; the write may raise (no row is written then)
SaveToExcel(ok) ==
    /\ pc \in SavePcs
    /\ LET saved == [test_result EXCEPT !.overall_pass = OverallPass(test_result.test_results)]
       IN  IF ok
           THEN /\ test_result' = saved
                /\ rows' = rows + 1
                /\ pc' = AfterSave(pc)
                /\ UNCHANGED <<created, restart_test, ui_appears, prompted, reply, provCalls,
                               sshVars, raised, exitCode, runner>>
           ELSE IF pc = "save_err"
           THEN Crash
           ELSE /\ raised < MaxRaises
                /\ raised' = raised + 1
                /\ test_result' = [saved EXCEPT !.notes = Append(@, "Error")]
                /\ pc' = "save_err"
                /\ UNCHANGED <<created, restart_test, ui_appears, prompted, reply, provCalls,
                               sshVars, rows, exitCode, runner>>

\* input("Press Enter to restart testing...")
ErrWait ==
    /\ pc = "err_wait"
    /\ pc' = "select"
    /\ UNCHANGED <<created, test_result, restart_test, ui_appears, rows, prompted,
                   reply, provCalls, sshVars, raised, exitCode, runner>>

(* ------------------------------------------------------------------ *)
(* reconnect_ssh and the remote commands                                *)
(* ------------------------------------------------------------------ *)

\* if ssh: ssh.close()
Close(s, oc) == IF s = "client" THEN oc - 1 ELSE oc

UsbMarkers == {"MicroPython Board in FS mode", "QinHeng Electronics USB HUB",
               "Ultra Fast Media"}

\* what a remote command can do: fail in the transport, or return text
Fail == [fail |-> TRUE, out |-> {}, err |-> {}]
Results(outs, errs) == {[fail |-> FALSE, out |-> o, err |-> e] : o \in outs, e \in errs}
LsusbResults  == {Fail} \cup Results(SUBSET UsbMarkers, {{}})
CheckResults  == {Fail} \cup Results({{"EXISTS"}, {"NOT_FOUND"}}, {{}})
LsblkResults  == {Fail} \cup Results({{}, {"sda1"}}, {{}})
CameraResults == {Fail} \cup Results({{}}, {{}, {"ERROR: *** no cameras available ***"}})
PlainResults  == {Fail} \cup Results({{}}, {{}})

\* ssh_execute_command: any exception gives ("", "SSH_ERROR: ...");
\* with ssh = None the call itself raises
ssh_execute_command(s, res) ==
    IF s = "None" \/ res.fail
    THEN [output |-> {}, error |-> {"SSH_ERROR"}]
    ELSE [output |-> res.out, error |-> res.err]

\* ssh_execute_interactive: any exception gives ("", str(e))
ssh_execute_interactive(s, res) ==
    IF s = "None" \/ res.fail
    THEN [output |-> {}, error |-> {"exception text"}]
    ELSE [output |-> {}, error |-> {}]

\* "SSH_ERROR" in error
HasSshError(err) == "SSH_ERROR" \in err

BoolResult(b) == IF b THEN "True" ELSE "False"

\* the sections of perform_ssh_tests after the USB tests
T14Section(tests) == IF "T14" \in tests THEN "camera" ELSE "ssh_end"
T13Section(tests) == IF "T13" \in tests THEN "lsblk" ELSE T14Section(tests)
T12Section(tests) == IF "T12" \in tests THEN "check" ELSE T13Section(tests)

\* lines 493-513: T09, T10 and T11 are read off the lsusb output
RecordUsb(tr, out) ==
    LET r09 == IF "T09" \in tr.tests_to_run
               THEN set_test_result(tr, "T09",
                        BoolResult("MicroPython Board in FS mode" \in out), "lsusb output", 1)
               ELSE tr
        r10 == IF "T10" \in tr.tests_to_run
               THEN set_test_result(r09, "T10",
                        BoolResult("QinHeng Electronics USB HUB" \in out), "", 0)
               ELSE r09
        r11 == IF "T11" \in tr.tests_to_run
               THEN set_test_result(r10, "T11",
                        BoolResult("Ultra Fast Media" \in out), "", 0)
               ELSE r10
    IN  r11

\* every SSH test is marked failed, selected or not
RECURSIVE MarkFailedAll(_, _)
MarkFailedAll(tr, ids) ==
    IF ids = << >> THEN tr
    ELSE MarkFailedAll(set_test_result(tr, Head(ids), "False", "SSH connection failed", 0),
                       Tail(ids))

\* lines 466-474: every selected SSH test is marked failed
RECURSIVE MarkFailed(_, _)
MarkFailed(tr, ids) ==
    IF ids = << >> THEN tr
    ELSE MarkFailed(IF Head(ids) \in tr.tests_to_run
                    THEN set_test_result(tr, Head(ids), "False", "SSH connection failed", 0)
                    ELSE tr,
                    Tail(ids))

\* the bulk marking walks the SSH tests backwards
ssh_test_ids_Reversed == <<"T14", "T13", "T12", "T11", "T10", "T09">>

\* line 470: the order of the bulk marking
ssh_test_ids == <<"T09", "T10", "T11", "T12", "T13", "T14">>

\* T13 is recorded from the lsblk output whatever happened before
ProcessT13Always(tr, s, out, err) ==
    set_test_result(tr, "T13", BoolResult("sda1" \in out), "lsblk output",
                    1 + CommandSecs)

\* T13 is recorded only for the first lsblk, not for the re-issued one
ProcessT13FirstOnly(tr, s, out, err) ==
    IF s # "None" /\ ~HasSshError(err) /\ ~retried
    THEN set_test_result(tr, "T13", BoolResult("sda1" \in out), "lsblk output",
                         1 + CommandSecs)
    ELSE tr

\* lines 573-576: T13 is recorded only with a connection and no SSH_ERROR
ProcessT13(tr, s, out, err) ==
    IF s # "None" /\ ~HasSshError(err)
    THEN set_test_result(tr, "T13", BoolResult("sda1" \in out), "lsblk output",
                         1 + CommandSecs)
    ELSE tr

\* T14 passes when the camera marker is in the captured text
ProcessT14Present(tr, s, out, err) ==
    IF s # "None" /\ ~HasSshError(err)
    THEN set_test_result(tr, "T14",
             BoolResult("ERROR: *** no cameras available ***" \in out \cup err),
             IF err # {} THEN "error text" ELSE "Camera OK", CommandSecs)
    ELSE tr

\* lines 595-598: T14 likewise
ProcessT14(tr, s, out, err) ==
    IF s # "None" /\ ~HasSshError(err)
    THEN set_test_result(tr, "T14",
             BoolResult("ERROR: *** no cameras available ***" \notin err),
             IF err # {} THEN "error text" ELSE "Camera OK", CommandSecs)
    ELSE tr

\* perform_ssh_tests moves on to `next` with its locals ssh = s, output = o,
\* error = e
Goto(next, s, oc, o, e, c) ==
    /\ ctx' = "none" /\ attempt' = 0 /\ acks' = 0 /\ retried' = FALSE
    /\ pc' = next
    /\ ssh' = s
    /\ openConns' = oc
    /\ output' = o /\ error' = e /\ cmd' = c

\* perform_ssh_tests returns without closing its connection
ReturnNoClose(s, oc) == Goto("save_final", "None", oc, {}, {}, NoCmd)

\* if ssh: ssh.close(), then return (lines 600-602, 607-609): the locals of
\* perform_ssh_tests are gone and main goes on to save_to_excel (line 936)
Return(s, oc) == Goto("save_final", "None", Close(s, oc), {}, {}, NoCmd)

\* reconnect_ssh without closing the connection that failed
StartReconnectNoClose(site, o, e, c) ==
    /\ openConns' = openConns
    /\ ssh' = "None"
    /\ ctx' = site
    /\ attempt' = 0
    /\ acks' = 0
    /\ pc' = "connect"
    /\ output' = o /\ error' = e /\ cmd' = c
    /\ retried' = FALSE

\* lines 483-487 (and 535-539, 563-567, 585-589): close, then reconnect_ssh
StartReconnect(site, o, e, c) ==
    /\ openConns' = Close(ssh, openConns)
    /\ ssh' = "None"
    /\ ctx' = site
    /\ attempt' = 0
    /\ acks' = 0
    /\ pc' = "connect"
    /\ output' = o /\ error' = e /\ cmd' = c
    /\ retried' = FALSE

\* the record of a command issued at `site` with result r
Issued(site, r) ==
    [site |-> site,
     n    |-> IF cmd.site = site THEN cmd.n + 1 ELSE 1,
     fail |-> r.error \cap {"SSH_ERROR", "exception text"} # {}]

MaxAttemptsOf(c) == IF c = "shutdown" THEN ShutdownMaxAttempts ELSE DefaultMaxAttempts

\* where the caller goes when reconnect_ssh returns a client
Reconnected(c) ==
    CASE c = "init"     -> "lsusb"
      [] c = "lsusb"    -> "lsusb"
      [] c = "T12"      -> "interactive"
      [] c = "T13"      -> "lsblk"
      [] c = "T14"      -> "camera"
      [] c = "shutdown" -> "shutdown_cmd"

\* reconnect_ssh returned None: what the caller does (lines 467-474, 490-491,
\* 540, 570-571, 592-593, 956-957)
NotReconnected ==
    LET tests == test_result.tests_to_run
    IN  CASE ctx = "init" ->
               /\ test_result' =
                    [MarkFailed([test_result EXCEPT !.notes =
                                    Append(@, "Initial SSH connection failed after 5 attempts.")],
                                ssh_test_ids)
                       EXCEPT !.notes = Append(@, "SSH tests incomplete.")]
               /\ Return("None", openConns)
          [] ctx = "lsusb" ->
               /\ test_result' = RecordUsb(test_result, output)
               /\ Goto(T12Section(tests), "None", openConns, output, error, cmd)
          [] ctx = "T12" ->
               /\ Goto("T12ask", "None", openConns, output, error, cmd)
               /\ UNCHANGED test_result
          [] ctx = "T13" ->
               /\ test_result' =
                    ProcessT13(set_test_result(test_result, "T13", "False",
                                              "SSH reconnection failed", 1 + CommandSecs),
                               "None", output, error)
               /\ Goto(T14Section(tests), "None", openConns, output, error, cmd)
          [] ctx = "T14" ->
               /\ test_result' =
                    ProcessT14(set_test_result(test_result, "T14", "False",
                                              "SSH reconnection failed", CommandSecs),
                               "None", output, error)
               /\ Goto("ssh_end", "None", openConns, output, error, cmd)
          [] ctx = "shutdown" ->
               /\ Goto("another", "None", openConns, {}, {}, NoCmd)
               /\ UNCHANGED test_result

\* reconnect_ssh that never gives up: it waits for Enter and tries again
ConnectAttemptNeverGivesUp(ok) ==
    /\ pc = "connect"
    /\ IF ok
       THEN /\ ssh' = "client"
            /\ openConns' = openConns + 1
            /\ connected' = TRUE
            /\ pc' = Reconnected(ctx)
            /\ retried' = (ctx \notin {"init", "shutdown"})
            /\ ctx' = "none" /\ attempt' = 0 /\ acks' = 0
            /\ UNCHANGED <<test_result, output, error, cmd>>
       ELSE /\ pc' = "conn_wait"
            /\ UNCHANGED <<test_result, sshVars>>
    /\ UNCHANGED <<created, restart_test, ui_appears, rows, prompted, reply, provCalls, raised,
                   exitCode, runner>>

\* reconnect_ssh that waits for Enter after its last failed attempt too
ConnectAttemptWaitsAfterLast(ok) ==
    /\ pc = "connect"
    /\ IF ok
       THEN /\ ssh' = "client"
            /\ openConns' = openConns + 1
            /\ connected' = TRUE
            /\ pc' = Reconnected(ctx)
            /\ retried' = (ctx \notin {"init", "shutdown"})
            /\ ctx' = "none" /\ attempt' = 0 /\ acks' = 0
            /\ UNCHANGED <<test_result, output, error, cmd>>
       ELSE IF attempt < MaxAttemptsOf(ctx)
       THEN /\ pc' = "conn_wait"
            /\ UNCHANGED <<test_result, sshVars>>
       ELSE /\ NotReconnected
            /\ UNCHANGED connected
    /\ UNCHANGED <<created, restart_test, ui_appears, rows, prompted, reply, provCalls, raised,
                   exitCode, runner>>

\* one pass of the loop of reconnect_ssh: ssh.connect succeeds or raises
ConnectAttempt(ok) ==
    /\ pc = "connect"
    /\ IF ok
       THEN /\ ssh' = "client"
            /\ openConns' = openConns + 1
            /\ connected' = TRUE
            /\ pc' = Reconnected(ctx)
            /\ retried' = (ctx \notin {"init", "shutdown"})
            /\ ctx' = "none" /\ attempt' = 0 /\ acks' = 0
            /\ UNCHANGED <<test_result, output, error, cmd>>
       ELSE IF attempt < MaxAttemptsOf(ctx) - 1
       THEN /\ pc' = "conn_wait"
            /\ UNCHANGED <<test_result, sshVars>>
       ELSE /\ NotReconnected
            /\ UNCHANGED connected
    /\ UNCHANGED <<created, restart_test, ui_appears, rows, prompted, reply, provCalls, raised,
                   exitCode, runner>>

\* wait_for_enter("Press Enter to retry SSH connection")
ConnAck ==
    /\ pc = "conn_wait"
    /\ attempt' = attempt + 1
    /\ acks' = acks + 1
    /\ pc' = "connect"
    /\ UNCHANGED <<created, test_result, restart_test, ui_appears, ssh, openConns, ctx,
                   retried, output, error, rows, prompted, reply, provCalls, connected, cmd,
                   raised, exitCode, runner>>

(* ------------------------------------------------------------------ *)
(* perform_ssh_tests: the commands                                      *)
(* ------------------------------------------------------------------ *)

mainVars == <<created, restart_test, ui_appears, rows, provCalls, raised, exitCode, runner>>

\* lines 480-513: lsusb, the reconnect if it failed, then T09, T10, T11
Lsusb(res) ==
    /\ pc = "lsusb"
    /\ LET r == ssh_execute_command(ssh, res)
           c == Issued("lsusb", r)
       IN  IF ~retried /\ HasSshError(r.error)
           THEN /\ StartReconnect("lsusb", r.output, r.error, c)
                /\ UNCHANGED test_result
           ELSE /\ test_result' = RecordUsb(test_result, r.output)
                /\ Goto(T12Section(test_result.tests_to_run), ssh, openConns,
                        r.output, r.error, c)
    /\ UNCHANGED <<mainVars, prompted, reply, connected>>

\* lines 516-529: the check that the LED script exists
Check(res) ==
    /\ pc = "check"
    /\ LET r == ssh_execute_command(ssh, res)
           c == Issued("check", r)
       IN  IF "NOT_FOUND" \in r.output
           THEN /\ test_result' = set_test_result(test_result, "T12", "False",
                                                  "Script not found", CommandSecs)
                /\ Goto(T13Section(test_result.tests_to_run), ssh, openConns,
                        output, error, c)
           ELSE /\ Goto("interactive", ssh, openConns, output, error, c)
                /\ UNCHANGED test_result
    /\ UNCHANGED <<mainVars, prompted, reply, connected>>

\* lines 531-544: the interactive LED program, re-run after a reconnect
Interactive(res) ==
    /\ pc = "interactive"
    /\ LET r == ssh_execute_interactive(ssh, res)
           c == Issued("interactive", r)
       IN  IF ~retried /\ HasSshError(r.error)
           THEN StartReconnect("T12", r.output, r.error, c)
           ELSE Goto("T12ask", ssh, openConns, r.output, r.error, c)
    /\ UNCHANGED <<mainVars, test_result, prompted, reply, connected>>

\* T12 decided by what the interactive command returned
T12AskFromOutput(answer) ==
    /\ pc = "T12ask"
    /\ answer \in {"yes", "no"}
    /\ prompted' = prompted \cup {"T12"}
    /\ reply' = [test |-> "T12", answer |-> answer]
    /\ test_result' = set_test_result(test_result, "T12", BoolResult(error = {}),
                                      "", CommandSecs + InteractiveSecs + OperatorSecs)
    /\ Goto(T13Section(test_result.tests_to_run), ssh, openConns, output, error, cmd)
    /\ UNCHANGED <<mainVars, connected>>

\* lines 546-551: the operator says whether the LED cycled
T12Ask(answer) ==
    /\ pc = "T12ask"
    /\ answer \in {"yes", "no"}
    /\ prompted' = prompted \cup {"T12"}
    /\ reply' = [test |-> "T12", answer |-> answer]
    /\ test_result' = set_test_result(test_result, "T12", get_yes_no_input(answer, FALSE),
                                      "", CommandSecs + InteractiveSecs + OperatorSecs)
    /\ Goto(T13Section(test_result.tests_to_run), ssh, openConns, output, error, cmd)
    /\ UNCHANGED <<mainVars, connected>>

\* lines 556-576: lsblk, the reconnect if it failed, then T13
Lsblk(res) ==
    /\ pc = "lsblk"
    /\ LET r == ssh_execute_command(ssh, res)
           c == Issued("lsblk", r)
       IN  IF ~retried /\ HasSshError(r.error)
           THEN /\ StartReconnect("T13", r.output, r.error, c)
                /\ UNCHANGED test_result
           ELSE /\ test_result' = ProcessT13(test_result, ssh, r.output, r.error)
                /\ Goto(T14Section(test_result.tests_to_run), ssh, openConns,
                        r.output, r.error, c)
    /\ UNCHANGED <<mainVars, prompted, reply, connected>>

\* lines 579-602: libcamera-hello, the reconnect if it failed, then T14
Camera(res) ==
    /\ pc = "camera"
    /\ LET r == ssh_execute_command(ssh, res)
           c == Issued("camera", r)
       IN  IF ~retried /\ HasSshError(r.error)
           THEN /\ StartReconnect("T14", r.output, r.error, c)
                /\ UNCHANGED test_result
           ELSE /\ test_result' = ProcessT14(test_result, ssh, r.output, r.error)
                /\ Goto("ssh_end", ssh, openConns, r.output, r.error, c)
    /\ UNCHANGED <<mainVars, prompted, reply, connected>>

\* lines 600-602: the connection is closed and the group returns True
SshEnd ==
    /\ pc = "ssh_end"
    /\ Return(ssh, openConns)
    /\ UNCHANGED <<mainVars, test_result, prompted, reply, connected>>

(* ------------------------------------------------------------------ *)
(* main: shutdown, next device, exceptions and the interrupt            *)
(* ------------------------------------------------------------------ *)

\* lines 946-948: Enter shuts the CM5 down, 'n' skips
ShutdownPrompt(skip) ==
    /\ pc = "shutdown_prompt"
    /\ IF skip
       THEN /\ pc' = "another"
            /\ UNCHANGED sshVars
       ELSE /\ pc' = "connect"
            /\ ctx' = "shutdown" /\ attempt' = 0 /\ acks' = 0
            /\ UNCHANGED <<ssh, openConns, retried, output, error, connected, cmd>>
    /\ UNCHANGED <<mainVars, test_result, prompted, reply>>

\* a failed shutdown command leaves a note in the ledger
ShutdownCmdNoted(res) ==
    /\ pc = "shutdown_cmd"
    /\ Goto("another", "None", Close(ssh, openConns), {}, {}, NoCmd)
    /\ test_result' = IF res.fail
                      THEN [test_result EXCEPT !.notes = Append(@, "Shutdown failed")]
                      ELSE test_result
    /\ UNCHANGED <<mainVars, prompted, reply, connected>>

\* lines 953-955: the shutdown command; its result is not looked at
ShutdownCmd(res) ==
    /\ pc = "shutdown_cmd"
    /\ Goto("another", "None", Close(ssh, openConns), {}, {}, NoCmd)
    /\ UNCHANGED <<mainVars, test_result, prompted, reply, connected>>

\* lines 962-964: test another device, or leave the loop
Another(yes) ==
    /\ pc = "another"
    /\ IF yes
       THEN /\ pc' = "select"
            /\ UNCHANGED <<created, test_result, restart_test, ui_appears, rows, prompted,
                           reply, provCalls, sshVars, raised, exitCode, runner>>
       ELSE Ended("done", 0)

\* positions where main waits in input() inside the try of line 820, outside
\* any inner try
MainPrompts == {"T01"} \cup hardware_tests \cup {"shutdown_prompt", "another"}

\* input() raises (end of input) at a prompt
PromptRaises ==
    \/ /\ pc \in MainPrompts \/ (pc = "conn_wait" /\ ctx = "init")
       /\ raised < MaxRaises
       /\ raised' = raised + 1
       /\ Handler
       /\ ctx' = "none" /\ attempt' = 0 /\ acks' = 0 /\ retried' = FALSE
       /\ UNCHANGED <<ssh, openConns, output, error, cmd, exitCode, runner>>
       /\ UNCHANGED <<created, restart_test, ui_appears, rows, prompted, reply, provCalls, connected>>
    \/ /\ pc = "T12ask" \/ (pc = "conn_wait" /\ ctx \in {"lsusb", "T12", "T13", "T14"})
       /\ raised < MaxRaises
       /\ raised' = raised + 1
       \* lines 604-609: except Exception in perform_ssh_tests
       /\ test_result' = [test_result EXCEPT !.notes = Append(@, "SSH error")]
       /\ Return(ssh, openConns)
       /\ UNCHANGED <<created, restart_test, ui_appears, rows, prompted, reply, provCalls, connected,
                      exitCode, runner>>
    \/ /\ pc = "conn_wait" /\ ctx = "shutdown"
       /\ raised < MaxRaises
       /\ raised' = raised + 1
       \* lines 958-959: except Exception around the shutdown
       /\ Goto("another", "None", openConns, {}, {}, NoCmd)
       /\ UNCHANGED <<created, test_result, restart_test, ui_appears, rows, prompted,
                      reply, provCalls, connected, exitCode, runner>>
    \* lines 811-815 and 977 are outside the try of line 820
    \/ /\ pc \in {"select", "err_wait"}
       /\ Crash

Running == pc \notin {"done", "exited", "crashed"}

\* SIGINT: the handler of setup_ctrl_x_handler calls sys.exit(0); SystemExit
\* passes every except clause of main and of perform_ssh_tests
Interrupt ==
    /\ Running
    /\ Ended("exited", 0)

Next ==
    \/ \E tests \in Selections : NewAttempt(tests)
    \/ \E res \in FirmwareResults : Firmware(res)
    \/ \E t \in hardware_tests, answer \in Answers : Visual(t, answer)
    \/ \E ok \in BOOLEAN : SaveToExcel(ok)
    \/ ErrWait
    \/ \E ok \in BOOLEAN : ConnectAttempt(ok)
    \/ ConnAck
    \/ \E res \in LsusbResults : Lsusb(res)
    \/ \E res \in CheckResults : Check(res)
    \/ \E res \in PlainResults : Interactive(res)
    \/ \E answer \in Answers : T12Ask(answer)
    \/ \E res \in LsblkResults : Lsblk(res)
    \/ \E res \in CameraResults : Camera(res)
    \/ SshEnd
    \/ \E skip \in BOOLEAN : ShutdownPrompt(skip)
    \/ \E res \in PlainResults : ShutdownCmd(res)
    \/ \E yes \in BOOLEAN : Another(yes)
    \/ PromptRaises
    \/ Interrupt

Spec == Init /\ [][Next]_vars

(* ------------------------------------------------------------------ *)
(* Properties                                                           *)
(* ------------------------------------------------------------------ *)

Results_ == test_result.test_results
Selected == test_result.tests_to_run
\* save_to_excel has written the current ledger at least once
Finalized == created /\ rows > 0
Executed == {t \in TEST_IDS : Results_[t] \in {"True", "False"}}
\* the operator answered No and declined to continue
Stopped == reply.answer = "stop"
\* T01 was recorded Fail in the current ledger
FwFailed == created /\ Results_["T01"] = "False"

\* C1: a test that is not selected is Skipped with duration 0, from the
\* construction of the ledger through every step of the sequencer (the
\* bulk marking after a failed connection included) to the save.
C1_UnselectedStaySkipped ==
    \A t \in TEST_IDS \ Selected :
        /\ Results_[t] = "SKIPPED"
        /\ test_result.test_durations[t] = 0

\* C1 witness: {T09} was selected, the initial connection failed, the bulk
\* marking ran and the ledger was saved.
C1_Witness ==
    /\ Finalized
    /\ Selected = {"T09"}
    /\ Results_["T09"] = "False"
    /\ Len(test_result.notes) = 2
    /\ test_result.notes[1] = "Initial SSH connection failed after 5 attempts."

\* C2: when the ledger is finalized and no test was executed (nothing was
\* selected, or every selected test is still unset), overall_pass is false.
C2_NothingExecutedIsFail ==
    (Finalized /\ Executed = {}) => ~test_result.overall_pass

\* C3: when the ledger is finalized and at least one test was executed,
\* overall_pass is true iff no test is Fail; Skipped and Unset do not count.
C3_OverallPassIffNoFail ==
    (Finalized /\ Executed # {}) =>
        (test_result.overall_pass <=> \A t \in TEST_IDS : Results_[t] # "False")

\* C3 witness: a finalized ledger with a passed test and an unset selected
\* test, and overall_pass true.
C3_Witness ==
    /\ Finalized
    /\ test_result.overall_pass
    /\ \E t \in Selected : Results_[t] = "None"
    /\ \E t \in Selected : Results_[t] = "True"

PlainSites == {"lsusb", "check", "lsblk", "camera"}

\* C4: a plain remote command that fails in the transport is followed by
\* the close of the connection and a reconnect, after which it is issued
\* once more; a second failure is not followed by another reconnect, and no
\* command is issued three times.
C4_PlainCommandRetriedOnce ==
    [][(cmd' # cmd /\ cmd'.site \in PlainSites /\ cmd'.fail) =>
          IF cmd'.n = 1
          THEN pc' = "connect" /\ ssh' = "None" /\ openConns' = 0
          ELSE cmd'.n = 2 /\ pc' # "connect"]_vars

\* the tests a command serves
Serves(site) ==
    CASE site = "lsusb"  -> {"T09", "T10", "T11"}
      [] site = "lsblk"  -> {"T13"}
      [] site = "camera" -> {"T14"}
      [] OTHER           -> {"T12"}

\* C5: when the command re-issued after the reconnect fails in the
\* transport too, every selected test it serves is recorded Fail by the
\* time the group moves on.
C5_FailedRetryIsFail ==
    [][(cmd' # cmd /\ cmd'.n = 2 /\ cmd'.fail) =>
          \A t \in Serves(cmd'.site) \cap Selected :
              test_result'.test_results[t] = "False"]_vars

\* C6: after No and "do not continue" on a visual or UI test the attempt is
\* over: restart_test is set, the test stays unset, no later test was or is
\* prompted, no connection was opened, and control is on its way back to
\* the selection (the save, its handler, or the selection itself).
C6_StopRestarts ==
    Stopped =>
        /\ reply.test \in hardware_tests
        /\ restart_test
        /\ Results_[reply.test] = "None"
        /\ \A p \in prompted : TestNo(p) <= TestNo(reply.test)
        /\ \A t \in Executed : TestNo(t) < TestNo(reply.test)
        /\ ~connected
        /\ pc \in {"save_restart", "save_err", "err_wait", "select"}

\* C6 witness: the operator stopped at T06 and the selection is prompted again.
C6_Witness ==
    /\ Stopped
    /\ reply.test = "T06"
    /\ pc = "select"

\* C7 as claimed: the ledger abandoned by the restart is never handed to
\* the spreadsheet.
C7_AbandonedNeverSaved ==
    Stopped => rows = 0

\* C7 amended: the ledger abandoned by the restart has been finalized and
\* handed to the spreadsheet by the time the selection is prompted again,
\* with the declined test not run.
C7_AbandonedSavedBeforeSelect ==
    (Stopped /\ pc = "select") =>
        /\ rows >= 1
        /\ Results_[reply.test] = "None"
        /\ test_result.overall_pass = OverallPass(Results_)

\* C7 witness: back at the selection after a stop, one row written.
C7_Witness ==
    /\ Stopped
    /\ pc = "select"
    /\ rows = 1

\* C8: after a failed provisioning T01 is Fail with the provisioner's
\* detail, the provisioner ran once, nobody was prompted, no connection was
\* opened, the note is "Firmware upload failed", the saved ledger has
\* overall_pass false, and with {T01} selected all other tests are Skipped.
C8_FirmwareFailure ==
    FwFailed =>
        /\ provCalls = 1
        /\ prompted = {}
        /\ ~connected
        /\ Len(test_result.log) = 1
        /\ test_result.log[1][1] = "T01"
        /\ test_result.log[1][2] = "FAIL"
        /\ test_result.log[1][3] \in FirmwareFailures
        /\ test_result.notes # << >>
        /\ test_result.notes[1] = "Firmware upload failed"
        /\ pc \in {"save_fw", "save_err", "err_wait", "select"}
        /\ (pc # "save_fw" => ~test_result.overall_pass)
        /\ (pc = "select" => rows >= 1)
        /\ \A t \in TEST_IDS \ {"T01"} : Results_[t] \in {"None", "SKIPPED"}
        /\ (Selected = {"T01"} =>
                \A t \in TEST_IDS \ {"T01"} : Results_[t] = "SKIPPED")

\* C8 witness: {T01} selected, "Flash nuke failed", the ledger saved.
C8_Witness ==
    /\ FwFailed
    /\ Selected = {"T01"}
    /\ test_result.log[1][3] = "Flash nuke failed"
    /\ rows = 1

\* C9 as claimed: after the ledger of a failed provisioning was saved the
\* sequencer does not go back to the selection.
C9_FirmwareFailureNotToSelect ==
    ~(FwFailed /\ rows >= 1 /\ pc = "select")

\* C9 amended: after the ledger of a failed provisioning was saved the
\* sequencer goes back to the selection, as after a stop, without the
\* shutdown or next-device prompt; only restart_test tells the two apart.
C9_FirmwareFailureBackToSelect ==
    (FwFailed /\ rows >= 1) =>
        /\ pc \in {"select", "save_err", "err_wait"}
        /\ ~restart_test

\* C9 witness: T01 failed, one row written, the selection is prompted again.
C9_Witness ==
    /\ FwFailed
    /\ rows = 1
    /\ pc = "select"

\* C10: T06 and T07 are prompted or recorded only when T05 passed or is not
\* selected; after T05 failed they are never prompted and stay unset, and
\* the sequencer is past the visual and UI groups without a restart.
C10_UiDependency ==
    /\ \A t \in {"T06", "T07"} :
          (pc = t \/ t \in prompted \/ t \in Executed) =>
              (Results_["T05"] = "True" \/ "T05" \notin Selected)
    /\ (created /\ Results_["T05"] = "False") =>
          /\ \A t \in {"T06", "T07"} :
                /\ t \notin prompted
                /\ t \in Selected => Results_[t] = "None"
          /\ pc \notin hardware_tests \cup {"T01", "save_fw", "save_restart"}
          /\ ~restart_test

\* C10 witness: T05 failed, T06 is selected and unset, the ledger is saved
\* after the remote group ran.
C10_Witness ==
    /\ Finalized
    /\ Results_["T05"] = "False"
    /\ "T06" \in Selected
    /\ Results_["T06"] = "None"
    /\ Results_["T09"] = "True"
    /\ pc = "shutdown_prompt"

GroupContexts == {"init", "lsusb", "T12", "T13", "T14"}

\* C11: when a connection sequence of the remote group (the initial one or
\* a reconnect) has used up its attempts, every selected remote test that
\* is still unset is recorded Fail and the group is over: no further
\* command, no further connect, and main goes on to the save.
C11_GroupAbortedOnConnectFailure ==
    [][(/\ pc = "connect"
        /\ ctx \in GroupContexts
        /\ attempt = MaxAttemptsOf(ctx) - 1
        /\ ssh' = "None"
        /\ pc' # "exited") =>
          /\ \A t \in ssh_tests \cap Selected :
                test_result'.test_results[t] # "None"
          /\ pc' \in {"ssh_end", "save_final"}]_vars

\* C12: an interrupt that arrives while the remote group holds an open
\* connection closes that connection and ends the process with a status
\* other than 0.
C12_InterruptClosesAndFails ==
    [][(created /\ ssh = "client" /\ pc' = "exited") =>
          /\ openConns' = 0
          /\ exitCode' # 0]_vars

\* C14: the ledger of an attempt is appended to the spreadsheet at most
\* once, also when an exception is raised after the row was written.
C14_AppendedOnce ==
    rows <= 1

\* C15: reconnect_ssh with max_attempts = n makes at most n attempts,
\* returns at the first success, reports failure only after the n-th failed
\* attempt, and waits for Enter exactly once between two attempts: not
\* before the first and not after the last.
C15_ConnectAttempts ==
    [][/\ (pc = "connect" /\ pc' # "exited") =>
            /\ attempt < MaxAttemptsOf(ctx)
            /\ acks = attempt
            /\ ssh' = "client" => pc' = Reconnected(ctx)
            /\ ssh' = "None" =>
                  IF attempt < MaxAttemptsOf(ctx) - 1
                  THEN pc' = "conn_wait" /\ attempt' = attempt /\ acks' = acks
                  ELSE pc' \notin {"connect", "conn_wait"}
       /\ (pc = "conn_wait" /\ pc' = "connect") =>
            /\ attempt' = attempt + 1
            /\ acks' = acks + 1]_vars

\* C15 witness: the third and last attempt of the connect for the shutdown
\* is about to be made, after two failed attempts and two waits.
C15_Witness ==
    /\ pc = "connect"
    /\ ctx = "shutdown"
    /\ attempt = ShutdownMaxAttempts - 1
    /\ acks = 2

\* C16: when the remote group ends after its last command (plain or
\* interactive) failed in the transport, a selected test that command
\* serves is Fail or the ledger has a note; the failure is not lost.
C16_NoSilentFailure ==
    (pc = "ssh_end" /\ cmd.fail) =>
        \/ \A t \in Serves(cmd.site) \cap Selected : Results_[t] = "False"
        \/ test_result.notes # << >>

\* positions inside the firmware, visual, UI and remote groups where an
\* exception can be raised
GroupPcs == {"T01"} \cup hardware_tests \cup {"T12ask", "conn_wait"}

\* C17: an exception raised while a group runs is caught at the boundary of
\* the group: a note is appended, the recorded statuses stay as they are,
\* and the attempt goes on with the next group (or its save).
C17_CaughtAtGroupBoundary ==
    [][(pc \in GroupPcs /\ ctx # "shutdown" /\ raised' = raised + 1) =>
          /\ Len(test_result'.notes) = Len(test_result.notes) + 1
          /\ test_result'.test_results = Results_
          /\ pc' \notin {"save_err", "err_wait", "select", "crashed"}]_vars

\* the marker each machine-decided test looks for (lines 497, 504, 511,
\* 574, 596)
Marker(t) ==
    CASE t = "T09" -> "MicroPython Board in FS mode"
      [] t = "T10" -> "QinHeng Electronics USB HUB"
      [] t = "T11" -> "Ultra Fast Media"
      [] t = "T13" -> "sda1"
      [] t = "T14" -> "ERROR: *** no cameras available ***"

MachineTests == {"T09", "T10", "T11", "T13", "T14"}

ConnFailDetails == {"SSH connection failed", "SSH reconnection failed"}

\* this step records t from the text its command returned, not from a
\* failed connection
RecordedFromOutput(t) ==
    /\ Results_[t] = "None"
    /\ test_result'.test_results[t] # "None"
    /\ Len(test_result'.log) > Len(test_result.log)
    /\ test_result'.log[Len(test_result'.log)][3] \notin ConnFailDetails

\* C18 as claimed: each of T09, T10, T11, T13, T14 is recorded Pass iff its
\* marker is in the captured output of its command, Fail otherwise.
C18_PassIffMarkerPresent ==
    [][\A t \in MachineTests :
          RecordedFromOutput(t) =>
              test_result'.test_results[t] =
                  IF Marker(t) \in output' \cup error' THEN "True" ELSE "False"]_vars

\* C18 amended: T09, T10, T11 and T13 are recorded Pass iff their marker is
\* in the captured standard output; T14 is recorded Pass iff the marker
\* "ERROR: *** no cameras available ***" is NOT in the captured standard
\* error.
C18_PassByMarker ==
    [][\A t \in MachineTests :
          RecordedFromOutput(t) =>
              test_result'.test_results[t] =
                  IF t = "T14"
                  THEN (IF Marker(t) \notin error' THEN "True" ELSE "False")
                  ELSE (IF Marker(t) \in output' THEN "True" ELSE "False")]_vars

\* C18 witness: the camera command returned the no-camera marker and T14 is
\* Fail, after lsblk showed sda1 and T13 is Pass.
C18_Witness ==
    /\ pc = "ssh_end"
    /\ cmd.site = "camera"
    /\ error = {"ERROR: *** no cameras available ***"}
    /\ Results_["T14"] = "False"
    /\ Results_["T13"] = "True"

\* C19: when lsblk completes without a transport error, on the first run
\* or on the one re-issued after a reconnect, T13 is recorded Pass if the
\* output contains "sda1" and Fail if it does not.
C19_T13BySda1 ==
    [][(cmd' # cmd /\ cmd'.site = "lsblk" /\ ~cmd'.fail) =>
          /\ "T13" \in Selected
          /\ test_result'.test_results["T13"] =
                IF "sda1" \in output' THEN "True" ELSE "False"]_vars

\* C19 witness: the first lsblk failed, the re-issued one returned sda1,
\* and T13 is Pass.
C19_Witness ==
    /\ cmd = [site |-> "lsblk", n |-> 2, fail |-> FALSE]
    /\ output = {"sda1"}
    /\ Results_["T13"] = "True"

\* C20: a transport error of the interactive command of T12 is acted on as
\* for a plain command: the connection is closed and a reconnect is
\* started, after which the command is run once more.
C20_InteractiveRetried ==
    [][(cmd' # cmd /\ cmd'.site = "interactive" /\ cmd'.fail /\ cmd'.n = 1) =>
          /\ pc' = "connect"
          /\ ssh' = "None"
          /\ openConns' = 0]_vars

\* C21: at most one connection is open at any time, and a connection is
\* opened only when every connection opened before it has been closed.
C21_OneConnection ==
    /\ openConns <= 1
    /\ Running => (openConns = 1 <=> ssh = "client")

\* C21 witness: the connection made by a reconnect in the middle of the
\* remote group is the only open one.
C21_Witness ==
    /\ pc = "lsblk"
    /\ retried
    /\ ssh = "client"
    /\ openConns = 1

\* the remote shutdown is under way
InShutdown ==
    \/ pc \in {"connect", "conn_wait"} /\ ctx = "shutdown"
    \/ pc = "shutdown_cmd"

\* C22: while the remote shutdown is under way, whether its connect or its
\* command succeeds or fails, the saved ledger does not change, no row is
\* added, and control stays in the shutdown or reaches the next-device
\* prompt.
C22_ShutdownBestEffort ==
    [][(InShutdown /\ pc' # "exited") =>
          /\ test_result' = test_result
          /\ rows' = rows
          /\ InShutdown' \/ pc' = "another"]_vars

\* C22 witness: with no test selected the shutdown connection was opened,
\* used and closed, and the next-device prompt is reached.
C22_Witness ==
    /\ pc = "another"
    /\ Selected = {}
    /\ connected
    /\ openConns = 0
    /\ rows = 1

\* C23: whenever the operator is asked about T12, T12 is recorded Pass iff
\* the answer is yes, whatever the command returned; a No records Fail, is
\* no restart, and the group goes on with T13.
C23_T12ByOperator ==
    [][(pc = "T12ask" /\ "T12" \in prompted') =>
          /\ test_result'.test_results["T12"] =
                IF reply'.answer = "yes" THEN "True" ELSE "False"
          /\ ~restart_test'
          /\ pc' = T13Section(Selected)]_vars

\* C23 witness: the operator said No to T12, T12 is Fail and lsblk is next.
C23_Witness ==
    /\ reply = [test |-> "T12", answer |-> "no"]
    /\ Results_["T12"] = "False"
    /\ pc = "lsblk"

\* C25: in every state the ledger has exactly one status and one duration
\* entry for every id of the catalog, and none for any other id.
C25_OneEntryPerCatalogId ==
    /\ DOMAIN test_result.test_results = TEST_IDS
    /\ DOMAIN test_result.test_durations = TEST_IDS
    /\ \A t \in TEST_IDS : Results_[t] \in {"None", "SKIPPED", "True", "False"}

\* C25 witness: all thirteen tests were selected and recorded, and the
\* ledger is saved.
C25_Witness ==
    /\ Finalized
    /\ Selected = TEST_IDS
    /\ Len(test_result.log) = Cardinality(TEST_IDS)

\* the ids of the log entries of a ledger, in the order they were recorded
LogIds(tr) == [i \in 1..Len(tr.log) |-> tr.log[i][1]]

\* C28: whenever the sequencer records a test, that test's status was still
\* unset (None) and the ledger's log holds no earlier entry for it; this
\* covers the reconnect-failure paths of T13 and T14, the script-not-found
\* path of T12 and the bulk marking.
C28_RecordedOnlyWhileUnset ==
    [][\A i \in (Len(test_result.log) + 1)..Len(test_result'.log) :
          LET t == LogIds(test_result')[i]
          IN  /\ Results_[t] = "None"
              /\ \A j \in 1..(i - 1) : LogIds(test_result')[j] # t]_vars

\* C28 witness: T13 failed on the reconnect-failure path and was recorded
\* exactly once; the ledger is saved.
C28_Witness ==
    /\ Finalized
    /\ \E i \in 1..Len(test_result.log) :
          /\ test_result.log[i] = <<"T13", "FAIL", "SSH reconnection failed">>
          /\ \A j \in 1..Len(test_result.log) : LogIds(test_result)[j] = "T13" => j = i

\* C29: within one attempt tests are recorded in catalog order: a test that
\* is recorded has a higher number than every test recorded or prompted
\* before it, and when T01 is selected the provisioner has run before any
\* operator confirmation is asked.
C29_CatalogOrder ==
    [][ /\ \A i \in (Len(test_result.log) + 1)..Len(test_result'.log) :
              LET t == LogIds(test_result')[i]
              IN  /\ \A j \in 1..(i - 1) :
                        TestNo(LogIds(test_result')[j]) < TestNo(t)
                  /\ \A q \in prompted \cap TEST_IDS : TestNo(q) < TestNo(t)
        /\ \A q \in (prompted' \ prompted) \cap TEST_IDS :
              /\ \A j \in 1..Len(test_result.log) :
                    TestNo(LogIds(test_result)[j]) < TestNo(q)
              /\ \A q2 \in prompted \cap TEST_IDS : TestNo(q2) < TestNo(q)
              /\ "T01" \in Selected => provCalls = 1 ]_vars

\* C29 witness: the initial connection failed after firmware and visual
\* tests were recorded, and the bulk marking added the six SSH tests.
C29_Witness ==
    /\ pc = "save_final"
    /\ Selected = TEST_IDS
    /\ LogIds(test_result) = TestOrder
    /\ test_result.log[Len(TestOrder)][3] = "SSH connection failed"

\* a is an initial part of b
IsPrefix(a, b) == Len(a) <= Len(b) /\ SubSeq(b, 1, Len(a)) = a

\* C30: over the lifetime of one ledger (from its creation to the next
\* selection or the end of the process) every step leaves the previous notes
\* as a prefix of the new notes.
C30_NotesAppendOnly ==
    [][created /\ created' /\ pc # "select" =>
          IsPrefix(test_result.notes, test_result'.notes)]_vars

\* C30 witness: the connection-failure notes, then the exception note.
C30_Witness ==
    /\ created
    /\ test_result.notes = <<"Initial SSH connection failed after 5 attempts.",
                             "SSH tests incomplete.", "Error">>

\* control is inside perform_ssh_tests (lines 461-609)
InRemoteGroup ==
    \/ pc \in {"lsusb", "check", "interactive", "T12ask", "lsblk", "camera", "ssh_end"}
    \/ pc \in {"connect", "conn_wait"} /\ ctx \in GroupContexts

\* C31: whenever control leaves the remote group and the process goes on
\* (all tests processed, initial connection failed, a reconnect failed, or an
\* exception was raised inside the group), no connection is open.
C31_GroupLeavesNoConnection ==
    [][(InRemoteGroup /\ ~InRemoteGroup' /\ pc' \notin {"exited", "crashed"}) =>
          openConns' = 0]_vars

\* C31 witness: an exception was caught inside the group while it held a
\* connection, and the group has returned with that connection closed.
C31_Witness ==
    /\ pc = "save_final"
    /\ connected
    /\ \E i \in 1..Len(test_result.notes) : test_result.notes[i] = "SSH error"
    /\ openConns = 0

(* ------------------------------------------------------------------ *)
(* Progress: prompts are answered and calls return                      *)
(* ------------------------------------------------------------------ *)

\* the selections followed to their end: none, all, each test alone, and
\* each group on its own
LiveSelections ==
    {{}, TEST_IDS} \cup {{t} : t \in TEST_IDS}
        \cup {{"T01"}, hardware_tests, {"T05", "T06", "T07"}, ssh_tests}

\* the steps of main when every input() returns an answer, every call
\* returns and no signal arrives: the single thread of main (lines 787-982)
\* keeps running, so a step that can be taken is taken
LiveNext ==
    \/ \E tests \in LiveSelections : NewAttempt(tests)
    \/ \E res \in FirmwareResults : Firmware(res)
    \/ \E t \in hardware_tests, answer \in Answers : Visual(t, answer)
    \/ \E ok \in BOOLEAN : SaveToExcel(ok)
    \/ ErrWait
    \/ \E ok \in BOOLEAN : ConnectAttempt(ok)
    \/ ConnAck
    \/ \E res \in LsusbResults : Lsusb(res)
    \/ \E res \in CheckResults : Check(res)
    \/ \E res \in PlainResults : Interactive(res)
    \/ \E answer \in Answers : T12Ask(answer)
    \/ \E res \in LsblkResults : Lsblk(res)
    \/ \E res \in CameraResults : Camera(res)
    \/ SshEnd
    \/ \E skip \in BOOLEAN : ShutdownPrompt(skip)
    \/ \E res \in PlainResults : ShutdownCmd(res)
    \/ \E yes \in BOOLEAN : Another(yes)

LiveSpec == Init /\ [][LiveNext]_vars /\ WF_vars(LiveNext)

\* C32: with prompts answered and calls returning, every attempt that has
\* started and is not yet saved eventually reaches a save of its ledger
\* (the final save, the save after a firmware failure, or the save of the
\* restart), and a connection sequence never goes beyond its number of
\* attempts.
C32_AttemptReachesSave ==
    /\ [](pc \in {"connect", "conn_wait"} => attempt < MaxAttemptsOf(ctx))
    /\ (created /\ rows = 0) ~> (pc \in SavePcs)

\* C32 witness: an attempt with every test selected went through the whole
\* remote group, the last reconnect used up its attempts, and the attempt
\* has reached its save.
C32_Witness ==
    /\ pc = "save_final"
    /\ rows = 0
    /\ Selected = TEST_IDS
    /\ Len(test_result.log) = Cardinality(TEST_IDS)
    /\ test_result.log[Len(test_result.log)] = <<"T14", "FAIL", "SSH reconnection failed">>

(* ------------------------------------------------------------------ *)
(* The ledger on its own: set_test_result called by any caller          *)
(* ------------------------------------------------------------------ *)

\* calls of set_test_result on one ledger
MaxRecords == 2

\* one id of each group; set_test_result treats every id alike
RecordIds == {"T01", "T02", "T09"}

\* a ledger as TestResult.__init__ builds it, for any selection
LedgerInit ==
    /\ pc = "ledger"
    /\ created = TRUE
    /\ test_result \in {TestResultInit(tests) : tests \in Selections}
    /\ restart_test = FALSE
    /\ ui_appears = FALSE
    /\ ssh = "None"
    /\ openConns = 0
    /\ ctx = "none"
    /\ attempt = 0
    /\ retried = FALSE
    /\ output = {}
    /\ error = {}
    /\ rows = 0
    /\ prompted = {}
    /\ reply = NoReply
    /\ provCalls = 0
    /\ connected = FALSE
    /\ acks = 0
    /\ cmd = NoCmd
    /\ raised = 0
    /\ exitCode = -1
    /\ runner = RunnerNew

\* test_result.set_test_result(test_id, result, "", duration)
Record(test_id, result, duration) ==
    /\ pc = "ledger"
    /\ Len(test_result.log) < MaxRecords
    /\ test_result' = set_test_result(test_result, test_id, result, "", duration)
    /\ UNCHANGED <<pc, mainVars, sshVars, prompted, reply>>

LedgerNext ==
    \E test_id \in RecordIds, result \in {"True", "False"},
       duration \in {NoDuration, OperatorSecs} :
        Record(test_id, result, duration)

LedgerSpec == LedgerInit /\ [][LedgerNext]_vars

\* C13: a call of set_test_result on an id whose status is already Pass,
\* Fail or Skipped does not overwrite the stored status and duration.
C13_SecondRecordRejected ==
    [][\A t \in TEST_IDS :
          Results_[t] # "None" =>
              /\ test_result'.test_results[t] = Results_[t]
              /\ test_result'.test_durations[t] = test_result.test_durations[t]]_vars

(* ------------------------------------------------------------------ *)
(* The test selection on its own                                        *)
(* ------------------------------------------------------------------ *)

\* Space presses in the menu
MenuToggles == 2

\* what the operator types in the text fallback: nothing, ids of the
\* catalog, ids that are not in the catalog
SkipInputs == {{}, {"T01"}, {"T99"}, {"T05", "T12", "T99"}, {"T09", "T10", "T11"},
               ssh_tests, TEST_IDS}

\* lines 811-818 with any use of the selector; reply and prompted keep what
\* the operator was asked and answered
SelectTests(keys, end, skip) ==
    /\ pc = "select"
    /\ pc' = "device_id"
    /\ created' = TRUE
    /\ test_result' = TestResultInit(select_tests_to_run(keys, end, skip))
    /\ reply' = IF end = "fail" THEN [test |-> "skip_input", answer |-> skip]
                ELSE [test |-> "menu", answer |-> end]
    /\ prompted' = IF end = "fail" THEN {"skip_input"} ELSE {}
    /\ UNCHANGED <<restart_test, ui_appears, rows, provCalls, raised, exitCode, runner, sshVars>>

SelectNext ==
    \E keys \in KeySeqs(MenuToggles) \cup { << >>, <<[k |-> "a", row |-> "T01"]>> },
       end \in MenuEnd, skip \in SkipInputs :
        SelectTests(keys, end, skip)

SelectSpec == Init /\ [][SelectNext]_vars

MaxPolls == 4
MaxTicks == 4

\* every variable of hardware_test.py; the runner is a separate program
programVars == <<pc, created, test_result, restart_test, ui_appears, ssh,
                 openConns, ctx, attempt, retried, output, error, rows,
                 prompted, reply, provCalls, connected, acks, cmd, raised,
                 exitCode>>

\* connect_ssh, lines 40-55: ssh.connect() on a local client; the client is
\* returned on success, None after an exception.  On failure run() stores
\* None, returns at line 110 and its finally block has nothing to close.
connect_ssh(ok) ==
    /\ runner.pc = "run"
    /\ runner' = IF ok
                 THEN [runner EXCEPT !.client = "client",
                                     !.open = @ + 1,
                                     !.connects = @ + 1,
                                     !.pc = "connected"]
                 ELSE [runner EXCEPT !.connects = @ + 1,
                                     !.pc = "finished",
                                     !.exit = 0]
    /\ UNCHANGED programVars

\* line 107: the assignment self.ssh = <returned client>
AssignSsh ==
    /\ runner.pc = "connected"
    /\ runner' = [runner EXCEPT !.ssh = runner.client, !.pc = "execute"]
    /\ UNCHANGED programVars

\* execute_command, lines 59-67 and 94-96: invoke_shell and send; an
\* exception returns False and run() goes on to its idle loop
execute_command(ok) ==
    /\ runner.pc = "execute"
    /\ runner' = IF ok
                 THEN [runner EXCEPT !.executed = @ + 1, !.pc = "monitor"]
                 ELSE [runner EXCEPT !.success = "False", !.pc = "idle"]
    /\ UNCHANGED programVars

PollEvents == {"output", "quiet", "exit", "closed", "lost"}

\* the target of one round of the monitor loop, lines 70-92
AfterPollReconnects(ev) == IF ev \in {"output", "quiet"} THEN "monitor"
                           ELSE IF ev = "lost" THEN "run" ELSE "idle"

AfterPoll(ev) == IF ev \in {"output", "quiet"} THEN "monitor" ELSE "idle"

\* lines 70-92: one round of the monitor loop
Poll(ev) ==
    /\ runner.pc = "monitor"
    /\ ev \in {"output", "quiet"} => runner.polls < MaxPolls
    /\ runner' = [runner EXCEPT
                    !.polls = IF ev \in {"output", "quiet"} THEN @ + 1 ELSE @,
                    !.success = IF ev = "exit" THEN "True"
                                ELSE IF ev \in {"closed", "lost"} THEN "False"
                                ELSE @,
                    !.pc = AfterPoll(ev)]
    /\ UNCHANGED programVars

\* lines 122-123: while self.running: time.sleep(1)
Idle ==
    /\ runner.pc = "idle"
    /\ runner.ticks < MaxTicks
    /\ runner' = [runner EXCEPT !.ticks = @ + 1]
    /\ UNCHANGED programVars

\* signal_handler, lines 28-38, run at any point of run(): clears running,
\* closes self.ssh if it is set, sys.exit(0); the SystemExit passes the
\* except clauses and the finally block (lines 129-136) closes self.ssh if set
signal_handler ==
    /\ runner.pc \notin {"finished", "exited"}
    /\ runner' = [runner EXCEPT
                    !.running = FALSE,
                    !.open = IF runner.ssh = "client" THEN 0 ELSE @,
                    !.pc = "exited",
                    !.exit = 0]
    /\ UNCHANGED programVars

RunnerNext ==
    \/ \E ok \in BOOLEAN : connect_ssh(ok)
    \/ AssignSsh
    \/ \E ok \in BOOLEAN : execute_command(ok)
    \/ \E ev \in PollEvents : Poll(ev)
    \/ Idle
    \/ signal_handler

RunnerSpec == Init /\ [][RunnerNext]_vars

\* C26: the command is sent at most once and only over a connection that was
\* made; a failed connect ends run() with nothing sent; once the command has
\* ended or the connection is lost the runner only idles or is terminated,
\* with no further connect and no further send.
C26_OnceThenIdle ==
    [][ /\ runner'.executed <= 1
        /\ runner'.connects <= 1
        /\ runner'.executed > runner.executed => runner.ssh = "client"
        /\ runner'.pc = "finished" => runner'.executed = 0 /\ runner'.open = 0
        /\ runner.pc = "idle" =>
              /\ runner'.pc \in {"idle", "exited"}
              /\ runner'.executed = runner.executed
              /\ runner'.connects = runner.connects ]_vars

C26_Witness ==
    /\ runner.pc = "idle"
    /\ runner.executed = 1
    /\ runner.success = "False"
    /\ runner.ticks = MaxTicks

\* C27: when the runner's process exits after a termination signal, no SSH
\* connection that was established is still open.
C27_SignalClosesConnection ==
    runner.pc = "exited" => runner.open = 0

====
